---------------------------- MODULE Spec2Model ----------------------------
(***************************************************************************)
(* Model of src/app.py: the paginated listing fetch (fetch_vinted_items),  *)
(* the snapshot diff (detect_new_items), the favorites store               *)
(* (load_favorites / save_favorite) and the two button handlers that       *)
(* drive them ("Search Now", "Run '<name>'").                              *)
(*                                                                         *)
(* Data representation                                                     *)
(*   Python dict      : a TLA+ function whose DOMAIN is the set of keys    *)
(*   Python list      : a sequence                                         *)
(*   pandas DataFrame : [columns |-> sequence of names, rows |-> sequence] *)
(*   a file           : [exists |-> BOOLEAN, ...content...]                *)
(*   text of a number : its sequence of decimal digits                     *)
(*   text of a date   : its parts, <<"2024-05-01", "T", "10:00:00">>       *)
(***************************************************************************)
EXTENDS Integers, Sequences, FiniteSets, TLC

(***************************************************************************)
(* Bounds of the model.                                                    *)
(***************************************************************************)
\* the upstream catalogue is observed at versions 0..MaxShift: version s
\* serves the ids s+1, s+2, ... (s listings have left the head of the feed)
MaxShift == 1
\* SpecDiff: listing ids 1..MaxId; the table passed to detect_new_items has
\* 1..MaxLen rows, the table already in the snapshot file 1..MaxPrevLen rows
MaxId == 3
MaxLen == 3
MaxPrevLen == 2
\* SpecFav: number of save_favorite calls followed
MaxSaves == 3

(***************************************************************************)
(* Program constants.                                                      *)
(***************************************************************************)
\* "per_page": 50 and limit // 50
PerPage == 50
\* fetch_vinted_items(q["search"], q["category"], 100) in the favorites tab
FavoriteLimit == 100

(***************************************************************************)
(* Sampled inputs.                                                         *)
(***************************************************************************)
\* positions of the "Results to fetch" slider (range 50..200) that are tried
Limits == {50, 75}
\* the values of the "Search term" box that are tried
Terms == {"iPhone"}
\* the entries of the "Category" select box that are tried
Categories == {"All", "Electronics"}
\* the names of the favorites in a favorites.json put in place beforehand
StoredFavNames == {"deal"}
\* sizes of the pages the upstream answers with (0 = exhausted, PerPage = full)
PageSizes == {0, PerPage}
\* position, in a page, of a record that lacks a required field
BadPositions == {1, 2}
\* SpecFav, SpecConc: favorite names and the queries saved under them
FavNames == {"x", "y", "z"}
ConcNames == {"x", "y"}
FavQueries == {[search |-> t, category |-> c] : t \in Terms, c \in Categories}

CATEGORY_MAP ==
    [c \in {"All", "Electronics", "Women", "Men", "Kids", "Home",
            "Books & Entertainment", "Pets"} |->
        CASE c = "All" -> 0          \* None
          [] c = "Electronics" -> 3
          [] c = "Women" -> 1904
          [] c = "Men" -> 1905
          [] c = "Kids" -> 1906
          [] c = "Home" -> 5
          [] c = "Books & Entertainment" -> 16
          [] c = "Pets" -> 2107]

CONDITION_MAP ==
    [s \in 1..5 |->
        CASE s = 1 -> "New with tag"
          [] s = 2 -> "New without tag"
          [] s = 3 -> "Very good"
          [] s = 4 -> "Good"
          [] s = 5 -> "Satisfactory"]

(***************************************************************************)
(* Python dict helpers.                                                    *)
(***************************************************************************)
\* d.get(k, default)
Get(d, k, default) == IF k \in DOMAIN d THEN d[k] ELSE default

\* d without key k (builds upstream records that lack a field)
Without(d, k) == [x \in DOMAIN d \ {k} |-> d[x]]

\* the empty dict {}
EmptyDict == [x \in {} |-> x]

(***************************************************************************)
(* Text of integers, as to_csv writes them and read_csv parses them.       *)
(***************************************************************************)
RECURSIVE FormatInt(_)
FormatInt(n) == IF n < 10 THEN <<n>> ELSE Append(FormatInt(n \div 10), n % 10)

RECURSIVE ParseInt(_)
ParseInt(ds) ==
    IF Len(ds) = 0 THEN 0
    ELSE 10 * ParseInt(SubSeq(ds, 1, Len(ds) - 1)) + ds[Len(ds)]

(***************************************************************************)
(* The upstream: the JSON items of the search endpoint.  The details of a  *)
(* listing are a function of its id and of the catalogue version, so that  *)
(* every optional field is present on some listings and absent on others.  *)
(***************************************************************************)
RequiredFields == <<"id", "title", "price", "url">>

FullItem(id, rev) ==
    [id |-> id,
     title |-> <<"title", id>>,
     price |-> (id % 40) + rev,
     brand |-> IF id % 3 = 1 THEN [title |-> "Nike"] ELSE EmptyDict,
     status_id |-> id % 7,
     url |-> <<"/items/", id>>,
     created_at |-> <<"2024-05-01", "T", "10:00:00">>]

UpstreamItem(id, rev) ==
    LET a == FullItem(id, rev)
        b == IF id % 3 = 0 THEN Without(a, "brand") ELSE a
        c == IF id % 7 = 6 THEN Without(b, "status_id") ELSE b
    IN  IF id % 2 = 1 THEN Without(c, "created_at") ELSE c

\* page p (1-based) of the feed at catalogue version shift, holding n items
UpstreamPage(shift, p, n) ==
    [i \in 1..n |-> UpstreamItem(shift + (p - 1) * PerPage + i, shift)]

\* the same page with the record at position pos lacking field f
BadPage(shift, p, n, pos, f) ==
    [i \in 1..n |->
        IF i = pos THEN Without(UpstreamPage(shift, p, n)[i], f)
        ELSE UpstreamPage(shift, p, n)[i]]

\* the same page with the record at position pos carrying a created_at that
\* is not a date
BadDatePage(shift, p, n, pos) ==
    [i \in 1..n |->
        IF i = pos THEN [FullItem(shift + (p - 1) * PerPage + i, shift)
                            EXCEPT !.created_at = <<"soon">>]
        ELSE UpstreamPage(shift, p, n)[i]]

\* what requests.get + raise_for_status + res.json() can produce
OkResponse(data) == [kind |-> "ok", json |-> data]
ErrorResponse(kind) == [kind |-> kind, json |-> EmptyDict]
ErrorKinds == {"transport_error", "http_error"}

Responses(shift, p) ==
    {ErrorResponse(k) : k \in ErrorKinds}
    \cup {OkResponse(EmptyDict)}
    \cup {OkResponse([items |-> UpstreamPage(shift, p, n)]) : n \in PageSizes}
    \cup {OkResponse([items |-> BadPage(shift, p, PerPage, pos, RequiredFields[k])]) :
            pos \in BadPositions, k \in 1..Len(RequiredFields)}
    \cup {OkResponse([items |-> BadDatePage(shift, p, PerPage, 1)])}

(***************************************************************************)
(* fetch_vinted_items, lines 62-74: the per-record loop over one page.     *)
(***************************************************************************)
\* item["id"], item["title"], item["price"], item['url'] raise KeyError
HasRequired(item) == \A k \in 1..Len(RequiredFields) : RequiredFields[k] \in DOMAIN item

\* the key of line 66
PriceColumn == "Price (€)"

\* the dict appended by lines 63-71
Normalize(item) ==
    [ID |-> item["id"],
     Title |-> item["title"],
     Brand |-> Get(Get(item, "brand", EmptyDict), "title", "Unknown"),
     Condition |-> Get(CONDITION_MAP, Get(item, "status_id", 0), "Unknown"),
     Link |-> <<"https://www.vinted.fr">> \o item["url"],
     Created |-> Get(item, "created_at", <<>>)]
    @@ (PriceColumn :> item["price"])

\* one pass of the body of "for item in data.get("items", [])" (lines 63-74)
\* on the loop state st; st.raised: a KeyError left the loop, st.broke: the
\* break of line 74 did.  Once the loop is left no record is looked at.
ItemStep(st, item, limit) ==
    IF st.raised \/ st.broke THEN st
    ELSE IF ~HasRequired(item) THEN [st EXCEPT !.raised = TRUE]
    ELSE [items |-> Append(st.items, Normalize(item)),
          fetched |-> st.fetched + 1,
          raised |-> FALSE,
          broke |-> st.fetched + 1 >= limit]

\* the passes over data[lo..hi] in order (the range is halved to keep the
\* evaluation shallow; the records are still visited first to last)
RECURSIVE LoopItems(_, _, _, _, _)
LoopItems(data, lo, hi, st, limit) ==
    IF lo > hi THEN st
    ELSE IF lo = hi THEN ItemStep(st, data[lo], limit)
    ELSE LET mid == (lo + hi) \div 2
             first == LoopItems(data, lo, mid, st, limit)
         IN  IF first.raised \/ first.broke THEN first
             ELSE LoopItems(data, mid + 1, hi, first, limit)

\* for item in data.get("items", []): ...  with items and fetched as they are
\* when the page arrives
ProcessItems(data, items, fetched, limit) ==
    LoopItems(data, 1, Len(data),
              [items |-> items, fetched |-> fetched, raised |-> FALSE, broke |-> FALSE],
              limit)

\* pages = (limit // 50) + 1
PageCount(limit) == (limit \div PerPage) + 1

\* the params dict of lines 45-52
RequestParams(search_term, category, page) ==
    LET params == [search_text |-> search_term, per_page |-> PerPage, page |-> page]
    IN  IF category # "All"
        THEN [k \in DOMAIN params \cup {"catalog_ids"} |->
                IF k = "catalog_ids" THEN CATEGORY_MAP[category] ELSE params[k]]
        ELSE params

(***************************************************************************)
(* fetch_vinted_items, lines 76-78: the DataFrame.                         *)
(***************************************************************************)
Columns == <<"ID", "Title", PriceColumn, "Brand", "Condition", "Link", "Created">>

\* pd.DataFrame(items): a list of dicts gives their keys as columns, an
\* empty list gives a frame with no columns at all
DataFrame(items) ==
    [columns |-> IF Len(items) = 0 THEN <<>> ELSE Columns, rows |-> items]

HasColumn(df, name) == \E k \in 1..Len(df.columns) : df.columns[k] = name

NaT == [nat |-> TRUE, date |-> "", time |-> ""]

\* pd.to_datetime of one cell: "" becomes NaT, the text of a date becomes
\* that instant, any other text raises ValueError.  Every date of the feed
\* modelled here is written in the one format <<date, "T", time>>, so a
\* column never mixes formats.
ToDatetime(s) ==
    IF s = <<>> THEN [raised |-> FALSE, value |-> NaT]
    ELSE IF Len(s) = 3 /\ s[2] = "T"
         THEN [raised |-> FALSE, value |-> [nat |-> FALSE, date |-> s[1], time |-> s[3]]]
    ELSE [raised |-> TRUE, value |-> NaT]

\* BuildFrame as it would be with the columns given to the constructor: an
\* empty item list then yields an empty frame that has the "Created" column
BuildFrameWithColumns(items) ==
    IF \E i \in 1..Len(items) : ToDatetime(items[i].Created).raised
    THEN [raised |-> TRUE, error |-> "ValueError", df |-> DataFrame(items)]
    ELSE [raised |-> FALSE, error |-> "",
          df |-> [columns |-> Columns,
                  rows |-> [i \in 1..Len(items) |->
                              [items[i] EXCEPT !.Created = ToDatetime(@).value]]]]

\* df = pd.DataFrame(items); df["Created"] = pd.to_datetime(df["Created"]);
\* return df.  raised: KeyError 'Created' (the frame has no such column) or
\* the ValueError of pd.to_datetime
BuildFrame(items) ==
    LET df == DataFrame(items)
    IN  IF ~HasColumn(df, "Created")
        THEN [raised |-> TRUE, error |-> "KeyError", df |-> df]
        ELSE IF \E i \in 1..Len(df.rows) : ToDatetime(df.rows[i].Created).raised
        THEN [raised |-> TRUE, error |-> "ValueError", df |-> df]
        ELSE [raised |-> FALSE, error |-> "",
              df |-> [columns |-> df.columns,
                      rows |-> [i \in 1..Len(df.rows) |->
                                  [df.rows[i] EXCEPT !.Created = ToDatetime(@).value]]]]

\* df.empty
Empty(df) == Len(df.rows) = 0 \/ Len(df.columns) = 0

(***************************************************************************)
(* The snapshot file previous_results.csv.                                 *)
(***************************************************************************)
AbsentFile == [exists |-> FALSE, header |-> <<>>, rows |-> <<>>]

\* one line of df.to_csv(index=False): every cell as text
CsvRow(row) ==
    [ID |-> FormatInt(row.ID),
     Title |-> row.Title,
     Brand |-> row.Brand,
     Condition |-> row.Condition,
     Link |-> row.Link,
     Created |-> IF row.Created.nat THEN <<>>
                 ELSE <<row.Created.date, " ", row.Created.time>>]
    @@ (PriceColumn :> FormatInt(row[PriceColumn]))

\* current_df.to_csv(PREVIOUS_RESULTS_FILE, index=False)
ToCsv(df) ==
    [exists |-> TRUE,
     header |-> df.columns,
     rows |-> [i \in 1..Len(df.rows) |-> CsvRow(df.rows[i])]]

\* the "ID" column of pd.read_csv(PREVIOUS_RESULTS_FILE), parsed as integers
ReadCsvIds(file) == [i \in 1..Len(file.rows) |-> ParseInt(file.rows[i].ID)]

\* set(series)
SetOf(seq) == {seq[i] : i \in 1..Len(seq)}

\* SelectRows keeping only the first row of each id
RECURSIVE SelectRowsDedup(_, _)
SelectRowsDedup(rows, ids) ==
    IF Len(rows) = 0 THEN <<>>
    ELSE LET rest == SelectRowsDedup(Tail(rows), ids \ {Head(rows).ID})
         IN  IF Head(rows).ID \in ids THEN <<Head(rows)>> \o rest ELSE rest

\* df[mask]: the rows satisfying the mask, in the frame's order
SelectRows(rows, ids) ==
    LET InIds(r) == r.ID \in ids
    IN  SelectSeq(rows, InIds)

\* detect_new_items persisting the new subset instead of the whole table
detect_new_items_keeps_new(current_df, file) ==
    IF ~file.exists
    THEN [raised |-> FALSE, ret |-> current_df, file |-> ToCsv(current_df)]
    ELSE LET new_ids == SetOf([i \in 1..Len(current_df.rows) |-> current_df.rows[i].ID])
                            \ SetOf(ReadCsvIds(file))
             new_listings == [columns |-> current_df.columns,
                              rows |-> SelectRows(current_df.rows, new_ids)]
         IN  [raised |-> FALSE, ret |-> new_listings, file |-> ToCsv(new_listings)]

\* detect_new_items leaving an existing snapshot file as it is
detect_new_items_no_overwrite(current_df, file) ==
    IF ~file.exists
    THEN [raised |-> FALSE, ret |-> current_df, file |-> ToCsv(current_df)]
    ELSE LET new_ids == SetOf([i \in 1..Len(current_df.rows) |-> current_df.rows[i].ID])
                            \ SetOf(ReadCsvIds(file))
         IN  [raised |-> FALSE,
              ret |-> [columns |-> current_df.columns,
                       rows |-> SelectRows(current_df.rows, new_ids)],
              file |-> file]

\* detect_new_items(current_df) run on the file as it is: the frame returned
\* and the file left behind.  raised: pandas raises (EmptyDataError on a file
\* without a header line, KeyError on a missing "ID" column) before the write.
detect_new_items(current_df, file) ==
    IF ~file.exists
    THEN [raised |-> FALSE, ret |-> current_df, file |-> ToCsv(current_df)]
    ELSE IF Len(file.header) = 0 \/ ~HasColumn(current_df, "ID")
              \/ ~(\E k \in 1..Len(file.header) : file.header[k] = "ID")
         THEN [raised |-> TRUE, ret |-> current_df, file |-> file]
    ELSE LET prev_ids == SetOf(ReadCsvIds(file))
             new_ids == SetOf([i \in 1..Len(current_df.rows) |-> current_df.rows[i].ID])
                            \ prev_ids
             new_listings == [columns |-> current_df.columns,
                              rows |-> SelectRows(current_df.rows, new_ids)]
         IN  [raised |-> FALSE, ret |-> new_listings, file |-> ToCsv(current_df)]

(***************************************************************************)
(* The favorites file favorites.json.  A Python dict of favorites is       *)
(* [keys |-> names in insertion order, val |-> name -> query].  The file   *)
(* is [exists, valid, members, size]: size is the length of its text;      *)
(* valid says the text is one JSON document, whose members <<name, value>> *)
(* are then listed in order.                                               *)
(***************************************************************************)
AbsentJson == [exists |-> FALSE, valid |-> FALSE, members |-> <<>>, size |-> 0]

EmptyFavs == [keys |-> <<>>, val |-> EmptyDict]

\* favs[name] = query
SetItem(favs, name, query) ==
    [keys |-> IF name \in DOMAIN favs.val THEN favs.keys ELSE Append(favs.keys, name),
     val |-> [k \in DOMAIN favs.val \cup {name} |->
                IF k = name THEN query ELSE favs.val[k]]]

\* json.load: the members in order, a repeated name keeping its last value
RECURSIVE JsonLoad(_)
JsonLoad(members) ==
    IF Len(members) = 0 THEN EmptyFavs
    ELSE LET m == members[Len(members)]
         IN  SetItem(JsonLoad(SubSeq(members, 1, Len(members) - 1)), m[1], m[2])

\* characters json.dump(..., indent=2) writes for the members: per member
\* the name, the two values and 49 characters of keys, quotes, braces and
\* indentation; a comma between members
RECURSIVE MembersSize(_)
MembersSize(members) ==
    IF Len(members) = 0 THEN 0
    ELSE LET m == members[Len(members)]
         IN  MembersSize(SubSeq(members, 1, Len(members) - 1))
             + Len(m[1]) + Len(m[2].search) + Len(m[2].category) + 49
             + (IF Len(members) > 1 THEN 1 ELSE 0)

\* the text json.dump(favs, f, indent=2) produces: "{}" or "{" members "\n}"
JsonDump(favs) ==
    LET members == [i \in 1..Len(favs.keys) |-> <<favs.keys[i], favs.val[favs.keys[i]]>>]
    IN  [members |-> members,
         size |-> IF Len(members) = 0 THEN 2 ELSE MembersSize(members) + 3]

\* open(FAVORITES_FILE, "w"): the file exists and is empty from here on
Truncate(file) == [exists |-> TRUE, valid |-> FALSE, members |-> <<>>, size |-> 0]

\* the write of the text when the with-block closes f: it lands at offset 0
\* of the file as it is by then.  Over an empty or shorter file the text is
\* the whole content; over a longer one (written by another session since
\* the open) the old tail stays and the content is no JSON document.
WriteText(file, text) ==
    IF text.size >= file.size
    THEN [exists |-> TRUE, valid |-> TRUE, members |-> text.members, size |-> text.size]
    ELSE [exists |-> TRUE, valid |-> FALSE, members |-> <<>>, size |-> file.size]

\* json.load(f) raises JSONDecodeError
LoadRaises(file) == file.exists /\ ~file.valid

\* load_favorites() where it does not raise
load_favorites(file) == IF file.exists THEN JsonLoad(file.members) ELSE EmptyFavs

\* save_favorite starting from an empty dict instead of the stored one
save_favorite_fresh(file, name, query) ==
    WriteText(Truncate(file), JsonDump(SetItem(EmptyFavs, name, query)))

\* save_favorite(name, query) run alone: the file it leaves (untouched when
\* the load raises)
save_favorite(file, name, query) ==
    IF LoadRaises(file) THEN file
    ELSE WriteText(Truncate(file), JsonDump(SetItem(load_favorites(file), name, query)))

(***************************************************************************)
(* State.                                                                  *)
(***************************************************************************)
VARIABLES
    snapshot,       \* the file previous_results.csv
    favorites,      \* the file favorites.json
    pc,             \* position of the running button handler:
                    \*   "idle"  no handler runs (the page is displayed)
                    \*   "loop"  in the page loop of fetch_vinted_items
                    \*   "frame" the loop is left, line 76 is next
    path,           \* which handler runs or ran last: "search" | "favorite"
    search_term,    \* fetch_vinted_items: search_term
    category,       \* fetch_vinted_items: category
    limit,          \* fetch_vinted_items: limit
    page,           \* fetch_vinted_items: page
    items,          \* fetch_vinted_items: items
    fetched,        \* fetch_vinted_items: fetched
    df,             \* the handler's df (SpecDiff: the argument current_df)
    new_items,      \* the handler's new_items / new
    outcome,        \* how the last handler run ended:
                    \*   "none" | "running" | "completed" | "no_listings"
                    \*   | "KeyError_field" | "KeyError_Created"
                    \*   | "ValueError_Created" | "raised"
    shift,          \* upstream: the catalogue version this fetch is served from
    requests,       \* history: the GETs of this fetch, each with the value
                    \*   of fetched when it was issued
    failedAt,       \* history: the page whose request failed (0: none)
    malformed,      \* history: the record loop met a record lacking a required field
    preSnapshot,    \* history: the snapshot file before this cycle / call
    first_ret,      \* history (SpecDiff): what the first call returned
    calls,          \* history (SpecDiff): detect_new_items calls made
    initial_favs,   \* history (SpecFav): the favorites file at the start
    saved,          \* history (SpecFav): name -> query of its last save
    nsaves,         \* history (SpecFav): save_favorite calls made
    conc,           \* SpecConc: per session, the running save_favorite call
    conc_log        \* history (SpecConc): the file steps in the order taken

fetchVars == <<pc, path, search_term, category, limit, page, items, fetched,
               outcome, shift, requests, failedAt, malformed>>
diffVars == <<first_ret, calls>>
favVars == <<initial_favs, saved, nsaves>>
concVars == <<conc, conc_log>>
vars == <<snapshot, favorites, df, new_items, preSnapshot,
          fetchVars, diffVars, favVars, concVars>>

NoFrame == DataFrame(<<>>)

Sessions == {1, 2}
IdleSession == [pc |-> "idle", name |-> "", query |-> EmptyDict, favs |-> EmptyFavs]

FetchInit ==
    /\ pc = "idle" /\ path = "search" /\ search_term = "" /\ category = "All"
    /\ limit = 0 /\ page = 0 /\ items = <<>> /\ fetched = 0
    /\ outcome = "none" /\ shift = 0 /\ requests = <<>> /\ failedAt = 0
    /\ malformed = FALSE
DiffInit == first_ret = NoFrame /\ calls = 0
FavInit == initial_favs = AbsentJson /\ saved = EmptyDict /\ nsaves = 0
ConcInit == conc = [p \in Sessions |-> IdleSession] /\ conc_log = <<>>

\* favorites.json as the deployment finds it: absent, or holding a favorite
StoredFavorites ==
    {AbsentJson}
    \cup {save_favorite(AbsentJson, n, q) : n \in StoredFavNames, q \in FavQueries}

\* the state at deployment: no snapshot yet
Init ==
    /\ snapshot = AbsentFile /\ favorites \in StoredFavorites
    /\ df = NoFrame /\ new_items = NoFrame /\ preSnapshot = AbsentFile
    /\ FetchInit /\ DiffInit /\ FavInit /\ ConcInit

(***************************************************************************)
(* The button handlers.                                                    *)
(***************************************************************************)
\* entry of fetch_vinted_items (lines 40-42) from either handler
StartFetch(p, term, cat, lim, s) ==
    /\ pc' = "loop" /\ path' = p
    /\ search_term' = term /\ category' = cat /\ limit' = lim
    /\ page' = 1 /\ items' = <<>> /\ fetched' = 0
    /\ outcome' = "running" /\ shift' = s /\ requests' = <<>> /\ failedAt' = 0
    /\ malformed' = FALSE
    /\ df' = NoFrame /\ new_items' = NoFrame /\ preSnapshot' = snapshot
    /\ UNCHANGED <<snapshot, favorites, diffVars, favVars, concVars>>

\* if st.button("Search Now"): df = fetch_vinted_items(search, category, max_results)
SearchNow(term, cat, lim, s) ==
    /\ pc = "idle"
    /\ StartFetch("search", term, cat, lim, s)

\* if st.button(f"Run '{name}'"): df = fetch_vinted_items(q["search"], q["category"], 100)
RunFavorite(name, s) ==
    /\ pc = "idle"
    /\ name \in DOMAIN load_favorites(favorites).val
    /\ LET q == load_favorites(favorites).val[name]
       IN  StartFetch("favorite", q.search, q.category, FavoriteLimit, s)

\* one pass of "for page in range(1, pages + 1)": the request of lines 54-60
\* and the record loop of lines 62-74
RequestPage(resp) ==
    /\ pc = "loop"
    /\ page <= PageCount(limit)
    /\ requests' = Append(requests,
            [params |-> RequestParams(search_term, category, page), fetched |-> fetched])
    /\ IF resp.kind # "ok"
       THEN \* except Exception: st.error(...); break
            /\ failedAt' = page /\ pc' = "frame"
            /\ UNCHANGED <<items, fetched, page, outcome, malformed>>
       ELSE LET r == ProcessItems(Get(resp.json, "items", <<>>), items, fetched, limit)
            IN  /\ items' = r.items /\ fetched' = r.fetched
                /\ failedAt' = failedAt /\ malformed' = r.raised
                /\ IF r.raised
                   THEN \* KeyError leaves fetch_vinted_items and the handler
                        pc' = "idle" /\ outcome' = "KeyError_field" /\ page' = page
                   ELSE /\ page' = page + 1 /\ outcome' = outcome
                        /\ pc' = IF page + 1 > PageCount(limit) THEN "frame" ELSE "loop"
    /\ UNCHANGED <<snapshot, favorites, df, new_items, preSnapshot, path, search_term,
                   category, limit, shift, diffVars, favVars, concVars>>

\* fav_name = st.text_input(...) in the script run of a "Search Now" click:
\* the box is drawn for the first time in that run and holds nothing yet
FavNameInput == ""

\* st.button("Save Favorite") in that run: a button drawn for the first time
\* has not been clicked
SaveFavoriteClicked == FALSE

\* lines 76-78, then the rest of the "Search Now" handler (lines 119-137),
\* lines 131-134 included: if fav_name and st.button("Save Favorite"): ...
SearchNowReturn ==
    /\ pc = "frame" /\ path = "search"
    /\ pc' = "idle"
    /\ LET b == BuildFrame(items)
           d == detect_new_items(b.df, snapshot)
       IN  IF b.raised
           THEN /\ outcome' = IF b.error = "KeyError" THEN "KeyError_Created"
                                                         ELSE "ValueError_Created"
                /\ UNCHANGED <<df, new_items, snapshot>>
                /\ UNCHANGED <<favorites>>
           ELSE IF Empty(b.df)
           THEN \* st.warning("No listings found.")
                /\ outcome' = "no_listings" /\ df' = b.df
                /\ UNCHANGED <<new_items, snapshot, favorites>>
           ELSE /\ df' = b.df /\ new_items' = d.ret /\ snapshot' = d.file
                /\ outcome' = IF d.raised THEN "raised" ELSE "completed"
                /\ favorites' =
                      IF ~d.raised /\ FavNameInput # "" /\ SaveFavoriteClicked
                      THEN save_favorite(favorites, FavNameInput,
                                         [search |-> search_term, category |-> category])
                      ELSE favorites
    /\ UNCHANGED <<preSnapshot, path, search_term, category, limit, page,
                   items, fetched, shift, requests, failedAt, malformed, diffVars, favVars,
                   concVars>>

\* lines 76-78, then the rest of the "Run '<name>'" handler (lines 146-149)
RunFavoriteReturn ==
    /\ pc = "frame" /\ path = "favorite"
    /\ pc' = "idle"
    /\ LET b == BuildFrame(items)
           d == detect_new_items(b.df, snapshot)
       IN  IF b.raised
           THEN /\ outcome' = IF b.error = "KeyError" THEN "KeyError_Created"
                                                         ELSE "ValueError_Created"
                /\ UNCHANGED <<df, new_items, snapshot>>
           ELSE /\ df' = b.df /\ new_items' = d.ret /\ snapshot' = d.file
                /\ outcome' = IF d.raised THEN "raised" ELSE "completed"
    /\ UNCHANGED <<favorites, preSnapshot, path, search_term, category, limit, page,
                   items, fetched, shift, requests, failedAt, malformed, diffVars, favVars,
                   concVars>>

Next ==
    \/ \E term \in Terms, cat \in Categories, lim \in Limits, s \in 0..MaxShift :
          SearchNow(term, cat, lim, s)
    \/ \E name \in StoredFavNames, s \in 0..MaxShift : RunFavorite(name, s)
    \/ \E resp \in Responses(shift, page) : RequestPage(resp)
    \/ SearchNowReturn
    \/ RunFavoriteReturn

Spec == Init /\ [][Next]_vars

(***************************************************************************)
(* Properties of the fetch and of the fetch+diff cycles (Spec).            *)
(***************************************************************************)
\* a handler run is over
CycleOver == pc = "idle" /\ outcome \notin {"none", "running"}

\* the ids stored in a snapshot file, read back from their text
StoredIds(file) == {ParseInt(file.rows[i].ID) : i \in 1..Len(file.rows)}

\* C1: a fetch that meets no error returns at most `limit` listings.
C1_AtMostLimit ==
    (CycleOver /\ outcome = "completed" /\ failedAt = 0) => Len(df.rows) <= limit

\* C2: when a fetch+diff cycle completes, on either path, the snapshot file
\* holds exactly the table the fetch returned, row by row, and the rows
\* reported as new are the rows of that table, in order, whose id is not an
\* id of the snapshot as it was before the cycle (all of them if there was none).
C2_SnapshotIsFetched ==
    (CycleOver /\ outcome = "completed") =>
        /\ snapshot.exists
        /\ snapshot.header = df.columns
        /\ Len(snapshot.rows) = Len(df.rows)
        /\ \A i \in 1..Len(df.rows) :
              /\ ParseInt(snapshot.rows[i].ID) = df.rows[i].ID
              /\ ParseInt(snapshot.rows[i][PriceColumn]) = df.rows[i][PriceColumn]
              /\ snapshot.rows[i].Title = df.rows[i].Title
              /\ snapshot.rows[i].Brand = df.rows[i].Brand
              /\ snapshot.rows[i].Condition = df.rows[i].Condition
              /\ snapshot.rows[i].Link = df.rows[i].Link
              /\ df.rows[i].Created.nat => snapshot.rows[i].Created = <<>>
              /\ ~df.rows[i].Created.nat =>
                    /\ snapshot.rows[i].Created[1] = df.rows[i].Created.date
                    /\ snapshot.rows[i].Created[3] = df.rows[i].Created.time
        /\ LET P == IF preSnapshot.exists THEN StoredIds(preSnapshot) ELSE {}
               New == {i \in 1..Len(df.rows) : df.rows[i].ID \notin P}
           IN  /\ Len(new_items.rows) = Cardinality(New)
               /\ \A i \in New :
                     new_items.rows[Cardinality({j \in New : j <= i})] = df.rows[i]

\* C2 witness: a replayed favorite completed against an existing snapshot and
\* reported some, but not all, of its listings as new.
C2_Witness ==
    /\ CycleOver /\ outcome = "completed" /\ path = "favorite"
    /\ preSnapshot.exists
    /\ Len(new_items.rows) > 0 /\ Len(new_items.rows) < Len(df.rows)

\* C5: when the request for page k >= 2 fails, pages 1..k were requested once
\* each in order, none after k, and the fetch returns the listings collected
\* from pages 1..k-1 in their order.
C5_PartialResultsReturned ==
    (CycleOver /\ failedAt >= 2) =>
        /\ Len(requests) = failedAt
        /\ \A i \in 1..Len(requests) : requests[i].params.page = i
        /\ outcome = "completed"
        /\ Len(df.rows) = Len(items)
        /\ \A i \in 1..Len(items) : df.rows[i].ID = items[i].ID

\* C7: a record lacking a required field fails alone: the fetch still returns
\* and the cycle completes with the well-formed records collected.
C7_MalformedFailsAlone ==
    (CycleOver /\ malformed) => (outcome = "completed" /\ Len(df.rows) = Len(items))

\* C9: in a fetch that meets no error, pages are requested in increasing
\* order from 1, at most floor(limit/50)+1 of them, and none is requested
\* once the running count has reached `limit`.
C9_NoRequestAfterLimit ==
    (outcome # "none" /\ failedAt = 0 /\ ~malformed) =>
        /\ Len(requests) <= PageCount(limit)
        /\ \A i \in 1..Len(requests) :
              requests[i].params.page = i /\ requests[i].fetched < limit

\* C10: a cycle whose fetch collected no listing leaves the snapshot file as
\* it was before the cycle, on either path.
C10_EmptyFetchKeepsSnapshot ==
    (CycleOver /\ Len(items) = 0) => snapshot = preSnapshot

\* C10 witness: a replayed favorite whose upstream returned no items, with a
\* snapshot in place.
C10_Witness ==
    /\ CycleOver /\ Len(items) = 0 /\ path = "favorite"
    /\ failedAt = 0 /\ ~malformed /\ preSnapshot.exists

(***************************************************************************)
(* SpecDiff: detect_new_items called on a table, then called again on the  *)
(* same table, from every snapshot state.                                  *)
(***************************************************************************)
\* sequences over S of length lo..hi
SeqsOf(S, lo, hi) == UNION {[1..n -> S] : n \in lo..hi}

\* the frame fetch_vinted_items returns for upstream items with these ids
TableOf(ids, rev) ==
    BuildFrame(ProcessItems([i \in 1..Len(ids) |-> UpstreamItem(ids[i], rev)],
                            <<>>, 0, Len(ids) + 1).items).df

CurrentTables == {TableOf(ids, rev) : ids \in SeqsOf(1..MaxId, 1, MaxLen), rev \in 0..1}
PrevTables == {TableOf(ids, 0) : ids \in SeqsOf(1..MaxId, 1, MaxPrevLen)}

InitDiff ==
    /\ snapshot \in {AbsentFile} \cup {ToCsv(t) : t \in PrevTables}
    /\ favorites = AbsentJson
    /\ df = NoFrame /\ new_items = NoFrame /\ preSnapshot = snapshot
    /\ FetchInit /\ DiffInit /\ FavInit /\ ConcInit

\* new = detect_new_items(current_df)
DetectFirst(current_df) ==
    /\ calls = 0
    /\ LET d == detect_new_items(current_df, snapshot)
       IN  /\ ~d.raised
           /\ df' = current_df /\ preSnapshot' = snapshot
           /\ new_items' = d.ret /\ snapshot' = d.file /\ first_ret' = d.ret
    /\ calls' = 1
    /\ UNCHANGED <<favorites, fetchVars, favVars, concVars>>

\* new = detect_new_items(current_df) once more, nothing in between
DetectAgain ==
    /\ calls = 1
    /\ LET d == detect_new_items(df, snapshot)
       IN  /\ ~d.raised
           /\ preSnapshot' = snapshot
           /\ new_items' = d.ret /\ snapshot' = d.file
    /\ calls' = 2
    /\ UNCHANGED <<favorites, df, first_ret, fetchVars, favVars, concVars>>

NextDiff ==
    \/ \E t \in CurrentTables : DetectFirst(t)
    \/ DetectAgain

SpecDiff == InitDiff /\ [][NextDiff]_vars

\* number of rows of a table with the given id
CountId(rows, id) == Cardinality({i \in 1..Len(rows) : rows[i].ID = id})

\* t is s with some rows left out, the others in their order
RECURSIVE IsSubsequence(_, _)
IsSubsequence(t, s) ==
    IF Len(t) = 0 THEN TRUE
    ELSE IF Len(s) = 0 THEN FALSE
    ELSE IF Head(t) = Head(s) THEN IsSubsequence(Tail(t), Tail(s))
    ELSE IsSubsequence(t, Tail(s))

\* C3: detect_new_items(C) returns the subsequence of C, in C's order, of
\* the rows whose id is no id of the previous snapshot P: no row with an id
\* of P, every copy of a row with a new id, and C itself when P is absent.
C3_DiffIsNewSubsequence ==
    calls >= 1 =>
        LET P == IF preSnapshot.exists THEN StoredIds(preSnapshot) ELSE {}
        IN  /\ new_items.columns = df.columns
            /\ IsSubsequence(new_items.rows, df.rows)
            /\ \A i \in 1..Len(new_items.rows) : new_items.rows[i].ID \notin P
            /\ \A i \in 1..Len(df.rows) :
                  df.rows[i].ID \notin P =>
                      CountId(new_items.rows, df.rows[i].ID) = CountId(df.rows, df.rows[i].ID)
            /\ ~preSnapshot.exists => new_items = df

\* C3 witness: against an existing snapshot, a table holding an id of the
\* snapshot and the same new id twice; both copies are returned.
C3_Witness ==
    /\ calls = 1 /\ preSnapshot.exists
    /\ Len(new_items.rows) = 2 /\ Len(df.rows) = 3
    /\ new_items.rows[1].ID = new_items.rows[2].ID

\* C4: the second of two calls in a row on the same table returns no row and
\* leaves the snapshot file holding that table.
C4_SecondCallEmpty ==
    calls = 2 =>
        /\ Len(new_items.rows) = 0
        /\ snapshot.exists
        /\ Len(snapshot.rows) = Len(df.rows)
        /\ \A i \in 1..Len(df.rows) :
              /\ ParseInt(snapshot.rows[i].ID) = df.rows[i].ID
              /\ snapshot.rows[i].Title = df.rows[i].Title
              /\ ParseInt(snapshot.rows[i][PriceColumn]) = df.rows[i][PriceColumn]

\* C4 witness: the first call ran against an existing snapshot and returned
\* rows; the second call returned none.
C4_Witness ==
    /\ calls = 2 /\ Len(first_ret.rows) > 0 /\ Len(first_ret.rows) < Len(df.rows)
    /\ Len(new_items.rows) = 0

(***************************************************************************)
(* SpecFav: save_favorite called again and again, one call at a time.      *)
(***************************************************************************)
\* dicts of favorites that may be in the file at the start
InitialFavs ==
    {EmptyFavs}
    \cup {SetItem(EmptyFavs, n, q) : n \in FavNames, q \in FavQueries}
    \cup {SetItem(SetItem(EmptyFavs, n, q), m, q) :
            n \in FavNames, m \in FavNames, q \in FavQueries}

InitFav ==
    /\ favorites \in {AbsentJson}
                     \cup {WriteText(Truncate(AbsentJson), JsonDump(f)) : f \in InitialFavs}
    /\ initial_favs = favorites /\ saved = EmptyDict /\ nsaves = 0
    /\ snapshot = AbsentFile
    /\ df = NoFrame /\ new_items = NoFrame /\ preSnapshot = AbsentFile
    /\ FetchInit /\ DiffInit /\ ConcInit

\* save_favorite(name, query)
SaveFavoriteCall(name, query) ==
    /\ nsaves < MaxSaves
    /\ favorites' = save_favorite(favorites, name, query)
    /\ saved' = [n \in DOMAIN saved \cup {name} |-> IF n = name THEN query ELSE saved[n]]
    /\ nsaves' = nsaves + 1
    /\ UNCHANGED <<snapshot, df, new_items, preSnapshot, initial_favs, fetchVars,
                   diffVars, concVars>>

NextFav == \E name \in FavNames, query \in FavQueries : SaveFavoriteCall(name, query)

SpecFav == InitFav /\ [][NextFav]_vars

\* C6: load_favorites() maps every name ever saved to the query of its last
\* save, holds each name once, and holds every other entry as it was.
C6_LastSaveWins ==
    LET loaded == load_favorites(favorites)
        before == load_favorites(initial_favs)
    IN  /\ DOMAIN loaded.val = DOMAIN before.val \cup DOMAIN saved
        /\ \A n \in DOMAIN saved : loaded.val[n] = saved[n]
        /\ \A n \in DOMAIN before.val \ DOMAIN saved : loaded.val[n] = before.val[n]
        /\ \A i, j \in 1..Len(favorites.members) :
              favorites.members[i][1] = favorites.members[j][1] => i = j
        /\ Len(loaded.keys) = Cardinality(DOMAIN loaded.val)

\* C6 witness: after several saves, a name that was stored carries a new
\* query, a name that was not stored was added, and a stored name that was
\* not saved is still there.
C6_Witness ==
    LET before == load_favorites(initial_favs)
    IN  /\ nsaves >= 2
        /\ \E n \in DOMAIN saved \cap DOMAIN before.val : saved[n] # before.val[n]
        /\ \E n \in DOMAIN saved : n \notin DOMAIN before.val
        /\ \E n \in DOMAIN before.val : n \notin DOMAIN saved

(***************************************************************************)
(* SpecConc: two sessions run save_favorite at once.  Each call is three   *)
(* file steps: the read of line 89, the open of line 91 that empties the   *)
(* file, the write of line 92.  Nothing orders the steps of one session    *)
(* against those of the other.                                             *)
(***************************************************************************)
InitConc ==
    /\ favorites \in {AbsentJson}
                     \cup {save_favorite(AbsentJson, "z", q) : q \in FavQueries}
    /\ snapshot = AbsentFile
    /\ df = NoFrame /\ new_items = NoFrame /\ preSnapshot = AbsentFile
    /\ FetchInit /\ DiffInit /\ FavInit /\ ConcInit

\* session p enters save_favorite(name, query): favs = load_favorites().
\* On a file that is no JSON document json.load raises and the call is over.
ConcLoad(p, name, query) ==
    /\ conc[p].pc = "idle"
    /\ conc' = [conc EXCEPT ![p] =
                  IF LoadRaises(favorites)
                  THEN [pc |-> "failed", name |-> name, query |-> query, favs |-> EmptyFavs]
                  ELSE [pc |-> "loaded", name |-> name, query |-> query,
                        favs |-> load_favorites(favorites)]]
    /\ conc_log' = Append(conc_log, <<p, "load">>)
    /\ UNCHANGED <<snapshot, favorites, df, new_items, preSnapshot, fetchVars,
                   diffVars, favVars>>

\* ConcOpen with the dict read again at the moment of the open
ConcOpenFresh(p) ==
    /\ conc[p].pc = "loaded"
    /\ conc' = [conc EXCEPT ![p].pc = "opened",
                            ![p].favs = SetItem(load_favorites(favorites),
                                                conc[p].name, conc[p].query)]
    /\ favorites' = Truncate(favorites)
    /\ conc_log' = Append(conc_log, <<p, "open">>)
    /\ UNCHANGED <<snapshot, df, new_items, preSnapshot, fetchVars, diffVars, favVars>>

\* session p: favs[name] = query; with open(FAVORITES_FILE, "w") as f
ConcOpen(p) ==
    /\ conc[p].pc = "loaded"
    /\ conc' = [conc EXCEPT ![p].pc = "opened",
                            ![p].favs = SetItem(conc[p].favs, conc[p].name, conc[p].query)]
    /\ favorites' = Truncate(favorites)
    /\ conc_log' = Append(conc_log, <<p, "open">>)
    /\ UNCHANGED <<snapshot, df, new_items, preSnapshot, fetchVars, diffVars, favVars>>

\* session p: json.dump(favs, f, indent=2) and the close that writes it out
ConcDump(p) ==
    /\ conc[p].pc = "opened"
    /\ favorites' = WriteText(favorites, JsonDump(conc[p].favs))
    /\ conc' = [conc EXCEPT ![p].pc = "done"]
    /\ conc_log' = Append(conc_log, <<p, "dump">>)
    /\ UNCHANGED <<snapshot, df, new_items, preSnapshot, fetchVars, diffVars, favVars>>

NextConc ==
    \/ \E p \in Sessions, name \in ConcNames, query \in FavQueries : ConcLoad(p, name, query)
    \/ \E p \in Sessions : ConcOpen(p)
    \/ \E p \in Sessions : ConcDump(p)

SpecConc == InitConc /\ [][NextConc]_vars

\* position of a step in the order taken
StepAt(p, step) == CHOOSE i \in 1..Len(conc_log) : conc_log[i] = <<p, step>>

\* both calls ran to their end, for different names, and the file is a
\* JSON document
BothSaved ==
    /\ \A p \in Sessions : conc[p].pc = "done"
    /\ conc[1].name # conc[2].name
    /\ favorites.valid

\* the name saved by session p is not in the stored mapping
Lost(p) == conc[p].name \notin DOMAIN load_favorites(favorites).val

\* C8: once both saves, for different names, are over and the file can be
\* loaded, the name of a session is missing from the stored mapping exactly
\* when the other session read the file before that session wrote it and
\* wrote it afterwards; at most one of the two names is missing.
C8_LostUpdateIffStaleRead ==
    BothSaved =>
        /\ \A p \in Sessions :
              LET q == 3 - p
              IN  Lost(p) <=> /\ StepAt(q, "load") < StepAt(p, "dump")
                              /\ StepAt(p, "dump") < StepAt(q, "dump")
        /\ ~(Lost(1) /\ Lost(2))

\* C8 witness: both saves are over and the stored mapping lacks one of the
\* two names.
C8_Witness == BothSaved /\ (Lost(1) \/ Lost(2))

=============================================================================
